---- MODULE Spec2Model ----
(***************************************************************************)
(* Model of matrixslow/ops/ops.py: the operator nodes Add, MatMul,         *)
(* SoftMax, Step and logistic, and the helper fill_diagonal.               *)
(*                                                                         *)
(* A matrix is a record [rows, cols, e] with e a function on               *)
(* (0..rows-1) \X (0..cols-1), indexed as numpy indexes it (0-based).      *)
(* Entries are integers.  exp() has no integer value, so the outputs of    *)
(* SoftMax and logistic are kept as terms: [exp |-> x, over |-> s] stands  *)
(* for e^x / (e^s[1] + ... + e^s[n]) and [logistic |-> t] for              *)
(* 1 / (1 + e^t); the clipping that feeds them is computed exactly.        *)
(***************************************************************************)
EXTENDS Integers, Sequences, FiniteSets

VARIABLES kind, parents, orig, value, computed, ret, fd

vars == <<kind, parents, orig, value, computed, ret, fd>>

(* ------------------------------ bounds --------------------------------- *)

\* largest number of rows of a parent's value
MaxRows == 2

\* largest number of columns of a parent's value
MaxCols == 3

\* largest number of rows / columns of a matrix handed to fill_diagonal
MaxTarget == 5

\* the clipping threshold 1e2 of SoftMax.softmax and logistic.compute
Clip == 100

(* --------------------------- dense matrices ---------------------------- *)

\* the index pairs [i, j] of an r x c matrix
Cells(r, c) == (0..(r - 1)) \X (0..(c - 1))

\* the r x c matrix with entries f
Mat(r, c, f) == [rows |-> r, cols |-> c, e |-> f]

\* self.value before the first compute
NoValue == [rows |-> 0, cols |-> 0, e |-> <<>>]

\* Node.shape(): self.value.shape
shape(M) == <<M.rows, M.cols>>

\* Node.dimension(): self.value.shape[0] * self.value.shape[1]
dimension(M) == M.rows * M.cols

\* np.zeros((r, c))
Zeros(r, c) == Mat(r, c, [<<i, j>> \in Cells(r, c) |-> 0])

\* np.eye(n)
Eye(n) == Mat(n, n, [<<i, j>> \in Cells(n, n) |-> IF i = j THEN 1 ELSE 0])

\* M.T
Transpose(M) ==
    Mat(M.cols, M.rows, [<<i, j>> \in Cells(M.cols, M.rows) |-> M.e[<<j, i>>]])

RECURSIVE SeqSum(_)
SeqSum(s) == IF s = <<>> THEN 0 ELSE s[1] + SeqSum(Tail(s))

\* A * B on np.matrix: the matrix product
MatProd(A, B) ==
    Mat(A.rows, B.cols,
        [<<i, j>> \in Cells(A.rows, B.cols) |->
            SeqSum([l \in 1..A.cols |->
                       A.e[<<i, l - 1>>] * B.e[<<l - 1, j>>]])])

\* A + B entrywise, B broadcast along every axis on which it has length 1
BroadcastAdd(A, B) ==
    Mat(A.rows, A.cols,
        [<<i, j>> \in Cells(A.rows, A.cols) |->
            A.e[<<i, j>>] + B.e[<<IF B.rows = 1 THEN 0 ELSE i,
                                  IF B.cols = 1 THEN 0 ELSE j>>]])

\* whether numpy can add B into A in place (A += B keeps A's shape)
Broadcastable(A, B) ==
    /\ B.rows \in {1, A.rows}
    /\ B.cols \in {1, A.cols}

\* np.arange(n)
Arange(n) == [p \in 0..(n - 1) |-> p]

\* v.reshape((r, c)): numpy fills the rows first
Reshape(v, r, c) == Mat(r, c, [<<i, j>> \in Cells(r, c) |-> v[i * c + j]])

\* M.ravel(): the rows of M one after another
Ravel(M) ==
    [p \in 0..(dimension(M) - 1) |-> M.e[<<p \div M.cols, p % M.cols>>]]

\* jacobi[row_sort, :][:, col_sort]
Reindex(M, row_sort, col_sort) ==
    Mat(M.rows, M.cols,
        [<<x, y>> \in Cells(M.rows, M.cols) |->
            M.e[<<row_sort[x], col_sort[y]>>]])

(* --------------------------- fill_diagonal ----------------------------- *)

\* a / b == c / d in Python's true division
TrueDivEq(a, b, c, d) == a * d = c * b

\* the block assignment with the column slice stepped by r instead of c:
\* to_be_filled[i * r:(i + 1) * r, i * r:i * r + c] = filler
FillBlock_rowstride(t, filler, i) ==
    LET r == filler.rows
        c == filler.cols
    IN  Mat(t.rows, t.cols,
            [<<x, y>> \in Cells(t.rows, t.cols) |->
                IF /\ i * r <= x /\ x < (i + 1) * r
                   /\ i * r <= y /\ y < i * r + c
                THEN filler.e[<<x - i * r, y - i * r>>]
                ELSE t.e[<<x, y>>]])

\* to_be_filled[i * r:(i + 1) * r, i * c:(i + 1) * c] = filler
FillBlock(t, filler, i) ==
    LET r == filler.rows
        c == filler.cols
    IN  Mat(t.rows, t.cols,
            [<<x, y>> \in Cells(t.rows, t.cols) |->
                IF /\ i * r <= x /\ x < (i + 1) * r
                   /\ i * c <= y /\ y < (i + 1) * c
                THEN filler.e[<<x - i * r, y - i * c>>]
                ELSE t.e[<<x, y>>]])

\* for i in range(n): ...
RECURSIVE FillLoop(_, _, _, _)
FillLoop(t, filler, i, n) ==
    IF i >= n THEN t ELSE FillLoop(FillBlock(t, filler, i), filler, i + 1, n)

\* fill_diagonal(to_be_filled, filler): [exc, out |-> the matrix returned,
\* to_be_filled |-> the first argument as the call leaves it].  The blocks
\* are written into the argument itself, and the argument is what is returned.
fill_diagonal(to_be_filled, filler) ==
    IF ~TrueDivEq(to_be_filled.rows, filler.rows,
                  to_be_filled.cols, filler.cols)
    THEN [exc |-> "AssertionError", out |-> NoValue,
          to_be_filled |-> to_be_filled]
    ELSE LET filled == FillLoop(to_be_filled, filler, 0,
                                to_be_filled.rows \div filler.rows)
         IN  [exc |-> "none", out |-> filled, to_be_filled |-> filled]

(* ------------------------------- nodes --------------------------------- *)
(* self is [value |-> self.value, parents |-> the parents' values in       *)
(* order]; the node handed to get_jacobi is [id |-> its position in        *)
(* self.parents, 0 for a node that is no parent, value |-> its value].     *)
(* compute returns [exc, value, parents]: the exception raised ("none"     *)
(* if none), and self.value and the parents' values when it returns or     *)
(* raises.  get_jacobi returns [exc, out].  The zero matrix that           *)
(* MatMul.get_jacobi hands to fill_diagonal is local to the call, so the   *)
(* filling of it in place shows only in what is returned.                  *)

Raise(name) == [exc |-> name, out |-> NoValue]

Return(M) == [exc |-> "none", out |-> M]

(* -------------------------------- Add ---------------------------------- *)

\* for parent in self.parents: self.value += parent.value
RECURSIVE AddLoop(_, _, _)
AddLoop(v, ps, i) ==
    IF i > Len(ps) THEN [exc |-> "none", value |-> v, parents |-> ps]
    ELSE IF ~Broadcastable(v, ps[i])
         THEN [exc |-> "ValueError", value |-> v, parents |-> ps]
         ELSE AddLoop(BroadcastAdd(v, ps[i]), ps, i + 1)

\* Add.compute without the reset of self.value: the sum piles up
Add_compute_accumulating(self) ==
    AddLoop(IF shape(self.value) = shape(self.parents[1])
            THEN self.value
            ELSE Zeros(self.parents[1].rows, self.parents[1].cols),
            self.parents, 1)

Add_compute(self) ==
    AddLoop(Zeros(self.parents[1].rows, self.parents[1].cols),
            self.parents, 1)

Add_get_jacobi(self, parent) == Return(Eye(dimension(self.value)))

(* ------------------------------- MatMul -------------------------------- *)

MatMul_compute(self) ==
    IF ~(/\ Len(self.parents) = 2
         /\ self.parents[1].cols = self.parents[2].rows)
    THEN [exc |-> "AssertionError", value |-> self.value,
          parents |-> self.parents]
    ELSE [exc |-> "none",
          value |-> MatProd(self.parents[1], self.parents[2]),
          parents |-> self.parents]

\* np.arange(d).reshape(shp) .T.ravel(): the shape not reversed
sort_index_unreversed(shp) ==
    Ravel(Transpose(Reshape(Arange(shp[1] * shp[2]), shp[1], shp[2])))

\* np.arange(d).reshape(shp[::-1]).T.ravel(), d the product of shp
sort_index(shp) ==
    Ravel(Transpose(Reshape(Arange(shp[1] * shp[2]), shp[2], shp[1])))

\* MatMul.get_jacobi with the first branch filling in B instead of B.T
MatMul_get_jacobi_untransposed(self, parent) ==
    LET zeros == Zeros(dimension(self.value), dimension(parent.value))
    IN  IF parent.id = 1
        THEN LET filled == fill_diagonal(zeros, self.parents[2])
             IN  IF filled.exc # "none" THEN Raise(filled.exc)
                 ELSE Return(filled.out)
        ELSE LET jacobi == fill_diagonal(zeros, self.parents[1])
                 row_sort == sort_index(shape(self.value))
                 col_sort == sort_index(shape(parent.value))
             IN  IF jacobi.exc # "none" THEN Raise(jacobi.exc)
                 ELSE Return(Reindex(jacobi.out, row_sort, col_sort))

MatMul_get_jacobi(self, parent) ==
    LET zeros == Zeros(dimension(self.value), dimension(parent.value))
    IN  IF parent.id = 1
        THEN LET filled == fill_diagonal(zeros, Transpose(self.parents[2]))
             IN  IF filled.exc # "none" THEN Raise(filled.exc)
                 ELSE Return(filled.out)
        ELSE LET jacobi == fill_diagonal(zeros, self.parents[1])
                 row_sort == sort_index(shape(self.value))
                 col_sort == sort_index(shape(parent.value))
             IN  IF jacobi.exc # "none" THEN Raise(jacobi.exc)
                 ELSE Return(Reindex(jacobi.out, row_sort, col_sort))

(* ------------------------------- SoftMax ------------------------------- *)

\* a[a > 1e2] = 1e2, done in place on the matrix it is given
ClipInPlace(a) ==
    Mat(a.rows, a.cols,
        [<<i, j>> \in Cells(a.rows, a.cols) |->
            IF a.e[<<i, j>>] > Clip THEN Clip ELSE a.e[<<i, j>>]])

\* SoftMax.softmax(a): [a |-> the argument as the call leaves it,
\*                      out |-> ep / np.sum(ep)]
softmax(a) ==
    LET clipped == ClipInPlace(a)
        over == [p \in 1..dimension(a) |-> Ravel(clipped)[p - 1]]
    IN  [a |-> clipped,
         out |-> Mat(a.rows, a.cols,
                     [<<i, j>> \in Cells(a.rows, a.cols) |->
                         [exp |-> clipped.e[<<i, j>>], over |-> over]])]

SoftMax_compute(self) ==
    LET r == softmax(self.parents[1])
    IN  [exc |-> "none", value |-> r.out,
         parents |-> [self.parents EXCEPT ![1] = r.a]]

SoftMax_get_jacobi(self, parent) == Raise("NotImplementedError")

(* -------------------------------- Step --------------------------------- *)

Step_compute(self) ==
    LET x == self.parents[1]
    IN  [exc |-> "none",
         value |-> Mat(x.rows, x.cols,
                       [<<i, j>> \in Cells(x.rows, x.cols) |->
                           IF x.e[<<i, j>>] >= 0 THEN 1 ELSE 0]),
         parents |-> self.parents]

\* np.zeros((self.dimension, self.dimension)): the bound method itself, not
\* its result, is given as the shape, which np.zeros rejects
Step_get_jacobi(self, parent) == Raise("TypeError")

(* ------------------------------ logistic ------------------------------- *)

\* np.where(-x > 1e2, 1e2, -x)
ClipNeg(v) == IF -v > Clip THEN Clip ELSE -v

logistic_compute(self) ==
    LET x == self.parents[1]
    IN  [exc |-> "none",
         value |-> Mat(x.rows, x.cols,
                       [<<i, j>> \in Cells(x.rows, x.cols) |->
                           [logistic |-> ClipNeg(x.e[<<i, j>>])]]),
         parents |-> self.parents]

\* np.diag(np.mat(np.multiply(self.value, 1 - self.value)).A1)
logistic_get_jacobi(self, parent) ==
    LET d == dimension(self.value)
        a1 == Ravel(self.value)
    IN  Return(Mat(d, d,
                   [<<i, j>> \in Cells(d, d) |->
                       IF i = j
                       THEN [times |-> a1[i], one_minus |-> a1[i]]
                       ELSE 0]))

(* --------------------------- the state machine ------------------------- *)
(* One operator node with its parents.  kind is the node's class, parents  *)
(* the current values of self.parents in order, orig their values when     *)
(* the node was built, value is self.value, computed tells whether the     *)
(* latest compute returned (rather than raised), and ret records the last  *)
(* call on the node: which method, the node it was given, the exception    *)
(* raised, the matrix returned, and self.value before the call.            *)

Kinds == {"Add", "MatMul", "SoftMax", "Step", "logistic"}

RowDims == 1..MaxRows

ColDims == 1..MaxCols

\* first entries of the ramps below: on both sides of 0 and of +-1e2
Seeds == {-102, -1, 1, 5, 99}

\* the r x c matrix whose rows, one after another, count up from s
Ramp(r, c, s) == Mat(r, c, [<<i, j>> \in Cells(r, c) |-> s + i * c + j])

\* the r x c matrix with a single 1, at (a, b)
OneHot(r, c, a, b) ==
    Mat(r, c, [<<i, j>> \in Cells(r, c) |-> IF i = a /\ j = b THEN 1 ELSE 0])

OneHots(r, c) == {OneHot(r, c, a, b) : a \in 0..(r - 1), b \in 0..(c - 1)}

\* the values a parent is built with
Inputs ==
    UNION {{Ramp(r, c, s) : s \in Seeds} \cup OneHots(r, c) :
           r \in RowDims, c \in ColDims}

NoNode == [id |-> -1, value |-> NoValue]

NoRet == [call |-> "none", arg |-> NoNode, exc |-> "none",
          out |-> NoValue, before |-> NoValue]

FdIdle == [to_be_filled |-> NoValue, filler |-> NoValue, called |-> FALSE,
           exc |-> "none", out |-> NoValue]

Self == [value |-> value, parents |-> parents]

\* the nodes get_jacobi may be handed: a parent, or a node that is none,
\* shaped like one of the parents or 1 x 1
Nodes ==
    {[id |-> i, value |-> parents[i]] : i \in 1..Len(parents)}
    \cup {[id |-> 0, value |-> Zeros(parents[i].rows, parents[i].cols)] :
          i \in 1..Len(parents)}
    \cup {[id |-> 0, value |-> Zeros(1, 1)]}

Init ==
    /\ kind \in Kinds
    /\ parents \in IF kind \in {"Add", "MatMul"}
                   THEN {<<a, b>> : a \in Inputs, b \in Inputs}
                   ELSE {<<a>> : a \in Inputs}
    /\ orig = parents
    /\ value = NoValue
    /\ computed = FALSE
    /\ ret = NoRet
    /\ fd = FdIdle

DoCompute(res) ==
    /\ value' = res.value
    /\ parents' = res.parents
    /\ ret' = [call |-> "compute", arg |-> NoNode, exc |-> res.exc,
               out |-> NoValue, before |-> value]
    /\ computed' = (res.exc = "none")
    /\ UNCHANGED <<kind, orig, fd>>

\* get_jacobi is called once compute has produced a value
DoGetJacobi(parent, res) ==
    /\ computed
    /\ ret' = [call |-> "get_jacobi", arg |-> parent, exc |-> res.exc,
               out |-> res.out, before |-> value]
    /\ UNCHANGED <<kind, parents, orig, value, computed, fd>>

AddCompute == kind = "Add" /\ DoCompute(Add_compute(Self))

AddGetJacobi ==
    kind = "Add" /\ \E p \in Nodes : DoGetJacobi(p, Add_get_jacobi(Self, p))

MatMulCompute == kind = "MatMul" /\ DoCompute(MatMul_compute(Self))

MatMulGetJacobi ==
    kind = "MatMul"
    /\ \E p \in Nodes : DoGetJacobi(p, MatMul_get_jacobi(Self, p))

SoftMaxCompute == kind = "SoftMax" /\ DoCompute(SoftMax_compute(Self))

SoftMaxGetJacobi ==
    kind = "SoftMax"
    /\ \E p \in Nodes : DoGetJacobi(p, SoftMax_get_jacobi(Self, p))

StepCompute == kind = "Step" /\ DoCompute(Step_compute(Self))

StepGetJacobi ==
    kind = "Step" /\ \E p \in Nodes : DoGetJacobi(p, Step_get_jacobi(Self, p))

logisticCompute == kind = "logistic" /\ DoCompute(logistic_compute(Self))

logisticGetJacobi ==
    kind = "logistic"
    /\ \E p \in Nodes : DoGetJacobi(p, logistic_get_jacobi(Self, p))

Next ==
    \/ AddCompute
    \/ AddGetJacobi
    \/ MatMulCompute
    \/ MatMulGetJacobi
    \/ SoftMaxCompute
    \/ SoftMaxGetJacobi
    \/ StepCompute
    \/ StepGetJacobi
    \/ logisticCompute
    \/ logisticGetJacobi

Spec == Init /\ [][Next]_vars

(* ---------------------- fill_diagonal on its own ----------------------- *)
(* fd holds one call of fill_diagonal: the matrix to fill (zero when       *)
(* passed, and as the call left it afterwards), the filler, and, once      *)
(* called, the exception raised and the matrix returned.                   *)

TargetDims == 1..MaxTarget

InitFill ==
    /\ kind = "fill_diagonal"
    /\ parents = <<>>
    /\ orig = <<>>
    /\ value = NoValue
    /\ computed = FALSE
    /\ ret = NoRet
    /\ fd \in {[to_be_filled |-> Zeros(R, C), filler |-> f, called |-> FALSE,
                exc |-> "none", out |-> NoValue] :
               R \in TargetDims, C \in TargetDims, f \in Inputs}

CallFillDiagonal ==
    /\ ~fd.called
    /\ LET res == fill_diagonal(fd.to_be_filled, fd.filler)
       IN  fd' = [fd EXCEPT !.called = TRUE, !.exc = res.exc,
                            !.out = res.out,
                            !.to_be_filled = res.to_be_filled]
    /\ UNCHANGED <<kind, parents, orig, value, computed, ret>>

NextFill == CallFillDiagonal

SpecFill == InitFill /\ [][NextFill]_vars

(* ------------------------------ properties ---------------------------- *)

\* the flattening that takes the rows one after another (numpy's ravel)
VecRow(M) == Ravel(M)

\* the flattening that takes the columns one after another
VecCol(M) ==
    [p \in 0..(dimension(M) - 1) |-> M.e[<<p % M.rows, p \div M.rows>>]]

\* the product of the matrix J with the vector v
MatVec(J, v) ==
    [x \in 0..(J.rows - 1) |->
        SeqSum([y \in 1..J.cols |-> J.e[<<x, y - 1>>] * v[y - 1]])]

\* the perturbations of M: every input of M's shape (the one-hot matrices
\* among them span all of them)
Perturbations(M) == {d \in Inputs : shape(d) = shape(M)}

\* the last call was MatMul.get_jacobi on the i-th parent
MatMulJacobiOf(i) ==
    /\ kind = "MatMul"
    /\ ret.call = "get_jacobi"
    /\ ret.arg.id = i

\* C1 as stated: after MatMul.compute on [A, B], get_jacobi(A) times the
\* column-major flattening of dA is the column-major flattening of dA * B,
\* for every perturbation dA of A's shape.
C1_JacobiA_ColumnMajor ==
    MatMulJacobiOf(1) =>
        /\ ret.exc = "none"
        /\ \A dA \in Perturbations(parents[1]) :
              MatVec(ret.out, VecCol(dA)) = VecCol(MatProd(dA, parents[2]))

\* C1 amended: after MatMul.compute on [A, B], get_jacobi(A) times the
\* row-major flattening of dA (first row first) is the row-major flattening
\* of dA * B, for every perturbation dA of A's shape.
C1_JacobiA_RowMajor ==
    MatMulJacobiOf(1) =>
        /\ ret.exc = "none"
        /\ \A dA \in Perturbations(parents[1]) :
              MatVec(ret.out, VecRow(dA)) = VecRow(MatProd(dA, parents[2]))

\* C1 witness: get_jacobi(A) has returned for a 2 x 1 A and a 1 x 2 B with
\* distinct entries.
C1_Witness ==
    /\ MatMulJacobiOf(1)
    /\ ret.exc = "none"
    /\ parents[1] = Ramp(2, 1, 1)
    /\ parents[2] = Ramp(1, 2, 5)
    /\ ret.out # Zeros(4, 2)

\* C2 as stated: get_jacobi(B) times the column-major flattening of dB is the
\* column-major flattening of A * dB, for every perturbation dB of B's shape.
C2_JacobiB_ColumnMajor ==
    MatMulJacobiOf(2) =>
        /\ ret.exc = "none"
        /\ \A dB \in Perturbations(parents[2]) :
              MatVec(ret.out, VecCol(dB)) = VecCol(MatProd(parents[1], dB))

\* C2 amended: get_jacobi(B) times the row-major flattening of dB is the
\* row-major flattening of A * dB, for every perturbation dB of B's shape,
\* square or not.
C2_JacobiB_RowMajor ==
    MatMulJacobiOf(2) =>
        /\ ret.exc = "none"
        /\ \A dB \in Perturbations(parents[2]) :
              MatVec(ret.out, VecRow(dB)) = VecRow(MatProd(parents[1], dB))

\* C2 witness: the scenario A = [[1,2],[3,4]], B = [[5,6],[7,8]],
\* C = [[19,22],[43,50]], with get_jacobi(B) returned as a 4 x 4 matrix that
\* sends dB = [[1,0],[0,0]] to (1,0,3,0) and dB = [[0,1],[0,0]] to (0,1,0,3).
C2_Witness ==
    /\ MatMulJacobiOf(2)
    /\ ret.exc = "none"
    /\ parents[1] = Ramp(2, 2, 1)
    /\ parents[2] = Ramp(2, 2, 5)
    /\ Ravel(value) = [p \in 0..3 |-> <<19, 22, 43, 50>>[p + 1]]
    /\ shape(ret.out) = <<4, 4>>
    /\ MatVec(ret.out, VecRow(OneHot(2, 2, 0, 0)))
          = [p \in 0..3 |-> <<1, 0, 3, 0>>[p + 1]]
    /\ MatVec(ret.out, VecRow(OneHot(2, 2, 0, 1)))
          = [p \in 0..3 |-> <<0, 1, 0, 3>>[p + 1]]

\* C3: whenever get_jacobi(p) on an Add, MatMul, Step or logistic node, p one
\* of its parents, returns a matrix, the matrix has dimension(self) rows and
\* dimension(p) columns.
C3_JacobiShape ==
    (/\ kind \in {"Add", "MatMul", "Step", "logistic"}
     /\ ret.call = "get_jacobi"
     /\ ret.arg.id >= 1
     /\ ret.exc = "none")
    => /\ ret.out.rows = dimension(value)
       /\ ret.out.cols = dimension(ret.arg.value)

\* C4: after Step.compute, Step.get_jacobi(parent) returns, without raising,
\* the all-zero matrix of shape (dimension(self), dimension(self)).
C4_StepJacobiZero ==
    (/\ kind = "Step"
     /\ ret.call = "get_jacobi"
     /\ ret.arg.id = 1)
    => /\ ret.exc = "none"
       /\ ret.out = Zeros(dimension(value), dimension(value))

\* C5: fill_diagonal on a target of shape (R, C) and a filler of shape (r, c)
\* fails whenever R/r differs from C/c or either ratio is not an integer, and
\* then returns no matrix.
C5_FillerPrecondition ==
    (/\ fd.called
     /\ \/ fd.to_be_filled.rows * fd.filler.cols
              # fd.to_be_filled.cols * fd.filler.rows
        \/ fd.to_be_filled.rows % fd.filler.rows # 0
        \/ fd.to_be_filled.cols % fd.filler.cols # 0)
    => /\ fd.exc # "none"
       /\ fd.out = NoValue

\* C6: no compute and no get_jacobi changes the value of a parent: the
\* parents' values are at all times what they were when the node was built.
C6_ParentsUntouched == parents = orig

\* C7: get_jacobi on a node that is not among self.parents fails; it never
\* returns a matrix.
C7_InvalidParentFails ==
    (ret.call = "get_jacobi" /\ ret.arg.id = 0) => ret.exc # "none"

\* C8: Add.compute fails when its parents' shapes are not all equal, and
\* yields their entrywise sum when they are.
C8_AddShapeCheck ==
    (kind = "Add" /\ ret.call = "compute") =>
        LET r == parents[1].rows
            c == parents[1].cols
        IN  IF \A n \in 1..Len(parents) : shape(parents[n]) = <<r, c>>
            THEN /\ ret.exc = "none"
                 /\ value = Mat(r, c,
                                [<<i, j>> \in Cells(r, c) |->
                                    SeqSum([n \in 1..Len(parents) |->
                                               parents[n].e[<<i, j>>]])])
            ELSE ret.exc # "none"

\* C9: compute is idempotent: a compute on a node that already holds a value
\* leaves self.value as it was before the call; the value is overwritten,
\* never accumulated.
C9_ComputeIdempotent ==
    (ret.call = "compute" /\ ret.before # NoValue) => value = ret.before

\* C9 witness: Add.compute has run again on a node that already held a
\* non-zero sum.
C9_Witness ==
    /\ kind = "Add"
    /\ ret.call = "compute"
    /\ ret.exc = "none"
    /\ ret.before # NoValue
    /\ value # Zeros(value.rows, value.cols)

\* the permutation s, built for shape shp, is a bijection on the positions
\* that sends the row-major position of (a, i) to its column-major position
SendsRowMajorToColumnMajor(s, shp) ==
    LET r == shp[1]
        c == shp[2]
    IN  /\ DOMAIN s = 0..(r * c - 1)
        /\ {s[p] : p \in DOMAIN s} = 0..(r * c - 1)
        /\ \A a \in 0..(r - 1), i \in 0..(c - 1) : s[a * c + i] = i * r + a

\* C10: both MatMul Jacobians are laid out row-major: for A (m x k) and
\* B (k x n), entry [i*n + j, a*k + l] of get_jacobi(A) is B[l,j] when a = i
\* and 0 otherwise, entry [i*n + j, l*n + q] of get_jacobi(B) is A[i,l] when
\* q = j and 0 otherwise, and row_sort and col_sort are bijections sending
\* row-major positions to column-major ones.
C10_RowMajorEntries ==
    (MatMulJacobiOf(1) \/ MatMulJacobiOf(2)) =>
        LET A == parents[1]
            B == parents[2]
            m == A.rows
            k == A.cols
            n == B.cols
            J == ret.out
        IN  /\ ret.exc = "none"
            /\ ret.arg.id = 1 =>
                  \A i \in 0..(m - 1), j \in 0..(n - 1),
                     a \in 0..(m - 1), l \in 0..(k - 1) :
                     J.e[<<i * n + j, a * k + l>>]
                        = IF a = i THEN B.e[<<l, j>>] ELSE 0
            /\ ret.arg.id = 2 =>
                  \A i \in 0..(m - 1), j \in 0..(n - 1),
                     l \in 0..(k - 1), q \in 0..(n - 1) :
                     J.e[<<i * n + j, l * n + q>>]
                        = IF q = j THEN A.e[<<i, l>>] ELSE 0
            /\ SendsRowMajorToColumnMajor(sort_index(shape(value)),
                                          shape(value))
            /\ SendsRowMajorToColumnMajor(sort_index(shape(B)), shape(B))

\* C10 witness: get_jacobi(B) has returned for a 2 x 2 A and a 2 x 3 B, where
\* the product is not square and the permutations are not the identity.
C10_Witness ==
    /\ MatMulJacobiOf(2)
    /\ ret.exc = "none"
    /\ parents[1] = Ramp(2, 2, 1)
    /\ parents[2] = Ramp(2, 3, 5)
    /\ sort_index(shape(parents[2])) # Arange(6)

====
